---- MODULE Spec2Model ----
(***************************************************************************)
(* Model of aumai-edumentor: the content library (ContentLibrary), the     *)
(* learning-path generator (PathGenerator) and the assessment engine       *)
(* (AssessmentEngine) of src/aumai_edumentor/core.py, with the field       *)
(* constraints of src/aumai_edumentor/models.py.                           *)
(*                                                                         *)
(* A LearningContent is a record with the fields of the pydantic model,    *)
(* except the free-text body `content`, which no operation reads.          *)
(* Strings that hold U+2014 (em dash) in the source are written with "--". *)
(***************************************************************************)
EXTENDS Integers, Sequences, FiniteSets, TLC

VARIABLES contents, added, args, ret

vars == <<contents, added, args, ret>>

(* ------------------------------------------------------------------ *)
(* Bounds of the model                                                  *)
(* ------------------------------------------------------------------ *)

\* number of add() calls made on the library after construction
MaxAdds == 2

\* longest answer list handed to evaluate(), over all answer records
MaxAnswers == 2

\* longest answer list handed to evaluate(), over the records of CoreAnswers
MaxLongAnswers == 5

(* ------------------------------------------------------------------ *)
(* models.py: field constraints                                         *)
(* ------------------------------------------------------------------ *)

Difficulties == {"beginner", "intermediate", "advanced"}

ContentTypes == {"text", "quiz", "activity"}

LearningStyles == {"visual", "auditory", "kinesthetic", "read-write"}

MinGrade == 1

MaxGrade == 12

MinAge == 4

MaxAge == 25

DefaultGradeLevel == 5

\* LearningContent(...) without the ge/le constraint on grade_level
ValidLearningContent_grade_unchecked(c) ==
    /\ c.difficulty \in Difficulties
    /\ c.content_type \in ContentTypes

\* LearningContent(...) validates: difficulty and content_type patterns, 1 <= grade_level <= 12
ValidLearningContent(c) ==
    /\ c.difficulty \in Difficulties
    /\ c.content_type \in ContentTypes
    /\ c.grade_level >= MinGrade
    /\ c.grade_level <= MaxGrade

\* LearnerProfile(...) validates: 4 <= age <= 25, 1 <= grade <= 12, learning_style pattern
ValidLearnerProfile(l) ==
    /\ l.age >= MinAge
    /\ l.age <= MaxAge
    /\ l.grade >= MinGrade
    /\ l.grade <= MaxGrade
    /\ l.learning_style \in LearningStyles

\* LearningPath(...) validates 0.0 <= progress_pct <= 100.0 (progress in percent)
ValidLearningPath(p) ==
    /\ p.progress_pct >= 0
    /\ p.progress_pct <= 100

\* AssessmentResult(...) validates 0.0 <= score <= 100.0; the score is kept in tenths
ValidAssessmentResult(r) ==
    /\ r.score10 >= 0
    /\ r.score10 <= 1000

(* ------------------------------------------------------------------ *)
(* str.lower() on the subject strings the model uses                    *)
(* ------------------------------------------------------------------ *)

Lower(s) ==
    CASE s = "MATH" -> "math"
      [] s = "Math" -> "math"
      [] s = "Art" -> "art"
      [] s = "HINDI" -> "hindi"
      [] OTHER -> s

(* ------------------------------------------------------------------ *)
(* core.py: _BUILTIN_CONTENT                                            *)
(* ------------------------------------------------------------------ *)

B(id, subj, topic, diff, type, ncf, grade) ==
    [content_id |-> id, subject |-> subj, topic |-> topic, difficulty |-> diff,
     content_type |-> type, ncf_alignment |-> ncf, grade_level |-> grade]

_BUILTIN_CONTENT == <<
    B("math-001", "math", "Counting and Numbers", "beginner", "text", <<"NCF-MATH-G1-NUM-1">>, 1),
    B("math-002", "math", "Addition and Subtraction", "beginner", "activity", <<"NCF-MATH-G2-OPS-1">>, 2),
    B("math-003", "math", "Multiplication Tables", "beginner", "text", <<"NCF-MATH-G3-MUL-1">>, 3),
    B("math-004", "math", "Fractions", "intermediate", "text", <<"NCF-MATH-G5-FRA-1">>, 5),
    B("math-005", "math", "Fractions Quiz", "intermediate", "quiz", <<"NCF-MATH-G5-FRA-2">>, 5),
    B("math-006", "math", "Algebra Introduction", "intermediate", "text", <<"NCF-MATH-G7-ALG-1">>, 7),
    B("math-007", "math", "Geometry: Triangles", "intermediate", "activity", <<"NCF-MATH-G7-GEO-1">>, 7),
    B("math-008", "math", "Linear Equations", "advanced", "text", <<"NCF-MATH-G9-ALG-2">>, 9),
    B("math-009", "math", "Quadratic Equations", "advanced", "text", <<"NCF-MATH-G10-ALG-3">>, 10),
    B("math-010", "math", "Statistics: Mean Median Mode", "intermediate", "activity", <<"NCF-MATH-G8-STAT-1">>, 8),
    B("sci-001", "science", "Plants and Photosynthesis", "beginner", "text", <<"NCF-SCI-G5-BIO-1">>, 5),
    B("sci-002", "science", "Human Body Systems", "intermediate", "text", <<"NCF-SCI-G7-BIO-2">>, 7),
    B("sci-003", "science", "Electricity and Circuits", "intermediate", "activity", <<"NCF-SCI-G7-PHY-1">>, 7),
    B("sci-004", "science", "Atoms and Molecules", "advanced", "text", <<"NCF-SCI-G9-CHE-1">>, 9),
    B("sci-005", "science", "Ecosystems", "intermediate", "text", <<"NCF-SCI-G8-ENV-1">>, 8),
    B("sci-006", "science", "Heredity and Evolution", "advanced", "text", <<"NCF-SCI-G10-BIO-3">>, 10),
    B("hindi-001", "hindi", "Varnamala (Alphabet)", "beginner", "text", <<"NCF-HINDI-G1-READ-1">>, 1),
    B("hindi-002", "hindi", "Reading Comprehension", "intermediate", "text", <<"NCF-HINDI-G5-READ-2">>, 5),
    B("hindi-003", "hindi", "Essay Writing", "advanced", "activity", <<"NCF-HINDI-G8-WRITE-1">>, 8),
    B("evs-001", "social_studies", "Our Neighbourhood", "beginner", "activity", <<"NCF-EVS-G3-SOC-1">>, 3),
    B("evs-002", "social_studies", "Indian History: Ancient Civilisations", "intermediate", "text", <<"NCF-SS-G6-HIST-1">>, 6),
    B("evs-003", "social_studies", "Indian Constitution and Democracy", "advanced", "text", <<"NCF-SS-G10-CIV-1">>, 10),
    B("eng-001", "english", "Basic Reading: Phonics", "beginner", "activity", <<"NCF-ENG-G1-READ-1">>, 1),
    B("eng-002", "english", "Grammar: Tenses", "intermediate", "text", <<"NCF-ENG-G6-GRAM-1">>, 6),
    B("eng-003", "english", "Letter Writing", "intermediate", "activity", <<"NCF-ENG-G8-WRITE-1">>, 8)
>>

(* ------------------------------------------------------------------ *)
(* Python's stable sort: sorted(xs, key=...) and list.sort(key=...)     *)
(* keys[i] is the key tuple <<k1, k2>> of items[i]                      *)
(* ------------------------------------------------------------------ *)

KeyLess(a, b) == a[1] < b[1] \/ (a[1] = b[1] /\ a[2] < b[2])

\* insert items[i] behind every element of the sorted prefix whose key is not greater
RECURSIVE SortFrom(_, _, _, _)
SortFrom(items, keys, i, done) ==
    IF i > Len(items) THEN [p \in 1..Len(done) |-> items[done[p]]]
    ELSE LET at == Cardinality({p \in 1..Len(done) : ~ KeyLess(keys[i], keys[done[p]])})
         IN  SortFrom(items, keys, i + 1,
                      SubSeq(done, 1, at) \o <<i>> \o SubSeq(done, at + 1, Len(done)))

StableSort(items, keys) == SortFrom(items, keys, 1, <<>>)


\* the difficulty labels ordered by severity instead of as strings
StrOrder_severity(s) ==
    CASE s = "beginner" -> 0
      [] s = "intermediate" -> 1
      [] s = "advanced" -> 2

\* position of a difficulty label under Python's string comparison
StrOrder(s) ==
    CASE s = "advanced" -> 0
      [] s = "beginner" -> 1
      [] s = "intermediate" -> 2

(* ------------------------------------------------------------------ *)
(* core.py: ContentLibrary                                              *)
(* ------------------------------------------------------------------ *)

\* an optional argument (str | None, int | None) is a sequence of length <= 1:
\* None is <<>>, a supplied value v is <<v>>
None == <<>>

Some(v) == <<v>>

\* the last built-in record is not loaded
ContentLibraryInit_drops_last == SubSeq(_BUILTIN_CONTENT, 1, Len(_BUILTIN_CONTENT) - 1)

ContentLibraryInit == _BUILTIN_CONTENT

\* the new item is put in front
add_prepends(lib, content) == <<content>> \o lib

\* an item whose content_id the library already holds is not stored
add_skips_existing_id(lib, content) ==
    IF \E k \in 1..Len(lib) : lib[k].content_id = content.content_id
    THEN lib ELSE Append(lib, content)

add(lib, content) == Append(lib, content)


\* search without the subject test
search_any_subject(lib, subject, difficulty, grade) ==
    LET byDifficulty(c) == c.difficulty = difficulty[1]
        r2 == IF difficulty # None /\ difficulty[1] # ""
              THEN SelectSeq(lib, byDifficulty) ELSE lib
        byGrade(c) == c.grade_level = grade[1]
        r3 == IF grade # None THEN SelectSeq(r2, byGrade) ELSE r2
    IN  StableSort(r3, [i \in 1..Len(r3) |->
                          <<r3[i].grade_level, StrOrder(r3[i].difficulty)>>])


\* the subject compared as written, without lower()
search_case_sensitive(lib, subject, difficulty, grade) ==
    LET bySubject(c) == c.subject = subject
        r1 == SelectSeq(lib, bySubject)
        byDifficulty(c) == c.difficulty = difficulty[1]
        r2 == IF difficulty # None /\ difficulty[1] # ""
              THEN SelectSeq(r1, byDifficulty) ELSE r1
        byGrade(c) == c.grade_level = grade[1]
        r3 == IF grade # None THEN SelectSeq(r2, byGrade) ELSE r2
    IN  StableSort(r3, [i \in 1..Len(r3) |->
                          <<r3[i].grade_level, StrOrder(r3[i].difficulty)>>])

search(lib, subject, difficulty, grade) ==
    LET bySubject(c) == Lower(c.subject) = Lower(subject)
        r1 == SelectSeq(lib, bySubject)
        byDifficulty(c) == c.difficulty = difficulty[1]
        \* `if difficulty:` is false for None and for the empty string
        r2 == IF difficulty # None /\ difficulty[1] # ""
              THEN SelectSeq(r1, byDifficulty) ELSE r1
        byGrade(c) == c.grade_level = grade[1]
        \* `if grade is not None:`
        r3 == IF grade # None THEN SelectSeq(r2, byGrade) ELSE r2
    IN  StableSort(r3, [i \in 1..Len(r3) |->
                          <<r3[i].grade_level, StrOrder(r3[i].difficulty)>>])

all_content(lib) == lib

\* a list handed back by all_content shares the library's own list object
returns_internal_list_from_all_content(op) == op = "all_content"

\* whether the list a method hands back is the library's own list object:
\* search builds its result with comprehensions and sorted(), all_content
\* copies with list(), so neither is
returns_internal_list(op) == FALSE

\* position of a subject string under Python's string comparison (by code
\* point: upper-case letters before lower-case ones), on the subjects the model uses
SubjectOrder(s) ==
    CASE s = "Art" -> 0
      [] s = "HINDI" -> 1
      [] s = "MATH" -> 2
      [] s = "Math" -> 3
      [] s = "art" -> 4
      [] s = "english" -> 5
      [] s = "hindi" -> 6
      [] s = "math" -> 7
      [] s = "science" -> 8
      [] s = "social_studies" -> 9

\* sorted(S) of a set of strings
SortedStrings(S) ==
    [p \in 1..Cardinality(S) |->
        CHOOSE x \in S : Cardinality({y \in S : SubjectOrder(y) < SubjectOrder(x)}) = p - 1]

\* the subjects are lower-cased before they are collected
all_subjects_lowercased(lib) == SortedStrings({Lower(lib[i].subject) : i \in 1..Len(lib)})

\* sorted({c.subject for c in self._contents})
all_subjects(lib) == SortedStrings({lib[i].subject : i \in 1..Len(lib)})

(* ------------------------------------------------------------------ *)
(* core.py: PathGenerator                                               *)
(* ------------------------------------------------------------------ *)

_DIFFICULTY_ORDER(d) ==
    CASE d = "beginner" -> 0
      [] d = "intermediate" -> 1
      [] d = "advanced" -> 2
      \* _DIFFICULTY_ORDER.get(d, 1)
      [] OTHER -> 1

Max(a, b) == IF a >= b THEN a ELSE b

Min(a, b) == IF a <= b THEN a ELSE b

Abs(a) == IF a >= 0 THEN a ELSE 0 - a

\* two grades below to two grades above
grade_range_wide(grade) ==
    {g \in MinGrade..MaxGrade : g >= grade - 2 /\ g <= grade + 2}

\* range(max(1, grade - 1), min(12, grade + 2)): the upper end is exclusive
grade_range(grade) ==
    {g \in Max(MinGrade, grade - 1) .. MaxGrade : g < Min(MaxGrade, grade + 2)}

\* subject.lower() in [w.lower() for w in learner.weaknesses]
is_weak(learner, subject) ==
    \E i \in 1..Len(learner.weaknesses) : Lower(learner.weaknesses[i]) = Lower(subject)


\* the weaknesses are not consulted
starting_difficulty_ignores_weakness(learner, subject) == "intermediate"

starting_difficulty(learner, subject) ==
    IF is_weak(learner, subject) THEN "beginner" ELSE "intermediate"


\* the two components of the key in the other order
sort_key_grade_first(content, start) ==
    <<content.grade_level,
      Abs(_DIFFICULTY_ORDER(content.difficulty) - _DIFFICULTY_ORDER(start))>>

\* the rank difference is taken with its sign
sort_key_signed(content, start) ==
    <<_DIFFICULTY_ORDER(content.difficulty) - _DIFFICULTY_ORDER(start),
      content.grade_level>>

\* the items farthest from the target difficulty come first
sort_key_farthest_first(content, start) ==
    <<0 - Abs(_DIFFICULTY_ORDER(content.difficulty) - _DIFFICULTY_ORDER(start)),
      content.grade_level>>

sort_key(content, start) ==
    <<Abs(_DIFFICULTY_ORDER(content.difficulty) - _DIFFICULTY_ORDER(start)),
      content.grade_level>>

\* style_pref.get(learner.learning_style, "text")
preferred_type(style) ==
    CASE style = "visual" -> "activity"
      [] style = "auditory" -> "text"
      [] style = "kinesthetic" -> "activity"
      [] style = "read-write" -> "text"
      [] OTHER -> "text"


\* no fallback when the grade window holds nothing
grade_filtered_no_fallback(lib, learner, subject) ==
    LET found == search(lib, subject, None, None)
        inRange(c) == c.grade_level \in grade_range(learner.grade)
    IN  SelectSeq(found, inRange)

\* the fallback takes the whole library instead of the subject's items
grade_filtered_whole_library(lib, learner, subject) ==
    LET found == search(lib, subject, None, None)
        inRange(c) == c.grade_level \in grade_range(learner.grade)
        kept == SelectSeq(found, inRange)
    IN  IF kept = <<>> THEN all_content(lib) ELSE kept

\* the filtered candidates: grade window, or everything of the subject when empty
grade_filtered(lib, learner, subject) ==
    LET found == search(lib, subject, None, None)
        inRange(c) == c.grade_level \in grade_range(learner.grade)
        kept == SelectSeq(found, inRange)
    IN  IF kept = <<>> THEN found ELSE kept

\* grade_filtered.sort(key=sort_key)
sorted_candidates(lib, learner, subject) ==
    LET gf == grade_filtered(lib, learner, subject)
        start == starting_difficulty(learner, subject)
    IN  StableSort(gf, [i \in 1..Len(gf) |-> sort_key(gf[i], start)])


\* no partition by content type
partitioned_not(items, ptype) == items

\* preferred + others
partitioned(items, ptype) ==
    LET isPref(c) == c.content_type = ptype
        notPref(c) == c.content_type # ptype
    IN  SelectSeq(items, isPref) \o SelectSeq(items, notPref)


\* every item is appended, seen or not
dedup_keeps_all(items, seen_ids, sequence) == sequence \o items

\* of several items with one content_id the last one is kept
dedup_keeps_last(items, seen_ids, sequence) ==
    LET keep == [i \in 1..Len(items) |->
                    ~ \E j \in (i + 1)..Len(items) :
                          items[j].content_id = items[i].content_id]
        idx == {i \in 1..Len(items) : keep[i]}
    IN  sequence \o [p \in 1..Cardinality(idx) |->
                        items[CHOOSE i \in idx : Cardinality({j \in idx : j < i}) = p - 1]]

\* the loop over preferred + others with seen_ids
RECURSIVE dedup(_, _, _)
dedup(items, seen_ids, sequence) ==
    IF items = <<>> THEN sequence
    ELSE LET item == Head(items)
         IN  IF item.content_id \notin seen_ids
             THEN dedup(Tail(items), seen_ids \cup {item.content_id}, Append(sequence, item))
             ELSE dedup(Tail(items), seen_ids, sequence)

generate(lib, learner, subject) ==
    LET ordered == sorted_candidates(lib, learner, subject)
        mixed == partitioned(ordered, preferred_type(learner.learning_style))
    IN  [learner |-> learner,
         content_sequence |-> dedup(mixed, {}, <<>>),
         progress_pct |-> 0]

(* ------------------------------------------------------------------ *)
(* core.py: AssessmentEngine                                            *)
(* An answer is a dict: a function whose domain is a subset of          *)
(* {"question_id", "correct", "topic"}.  The dynamically typed value of *)
(* "correct" is a tagged value [type, val], type in bool / str / int.   *)
(* ------------------------------------------------------------------ *)

Bool(b) == [type |-> "bool", val |-> b]

Str(s) == [type |-> "str", val |-> s]

Int_(n) == [type |-> "int", val |-> n]

\* dict.get(key, default)
Get(d, key, default) == IF key \in DOMAIN d THEN d[key] ELSE default

\* value.strip().lower() on the strings the model uses
StripLower(s) ==
    CASE s = "False" -> "false"
      [] s = " no " -> "no"
      [] s = " " -> ""
      [] s = "TRUE" -> "true"
      [] s = "NO" -> "no"
      [] s = " 0" -> "0"
      [] OTHER -> s


\* bool(value) for every type: a non-empty string is true
_is_correct_truthy(value) ==
    IF value.type = "str" THEN value.val # ""
    ELSE IF value.type = "bool" THEN value.val
    ELSE value.val # 0

_is_correct(value) ==
    IF value.type = "str"
    THEN StripLower(value.val) \notin {"false", "0", "no", ""}
    ELSE IF value.type = "bool" THEN value.val
    \* bool(n) of an integer
    ELSE value.val # 0

NoAnswersMsg == "No answers provided -- please attempt the assessment."

ExcellentMsg == "Continue to advanced topics -- excellent performance!"

\* f"Fundamental concepts in {subject}" on the subjects the model uses
FundamentalMsg(subject) ==
    CASE subject = "math" -> "Fundamental concepts in math"
      [] subject = "Science" -> "Fundamental concepts in Science"
      [] OTHER -> "Fundamental concepts in <subject>"

\* an answer without a correct key counts as correct
correct_count_missing_is_correct(answers) ==
    Cardinality({i \in 1..Len(answers) :
                    _is_correct(Get(answers[i], "correct", Bool(TRUE)))})

RECURSIVE correct_count(_)
correct_count(answers) ==
    IF answers = <<>> THEN 0
    ELSE (IF _is_correct(Get(Head(answers), "correct", Bool(FALSE))) THEN 1 ELSE 0)
         + correct_count(Tail(answers))


\* the percentage cut off after the first decimal
score10_truncates(correct, total) == (1000 * correct) \div total

\* round(correct / total * 100, 1), in tenths of a percent.  For total < 16 the
\* quotient 1000 * correct / total is never half-way between two integers, so
\* rounding to nearest is the float result.
score10(correct, total) == (2000 * correct + total) \div (2 * total)


\* the topic of every answer is collected, judged correct or not
incorrect_topics_of_all(answers, subject, acc) ==
    LET topics == [i \in 1..Len(answers) |-> Get(answers[i], "topic", subject)]
    IN  acc \o SelectSeq([i \in 1..Len(topics) |->
                            IF \E j \in 1..(i - 1) : topics[j] = topics[i]
                            THEN "" ELSE topics[i]],
                         LAMBDA t : t # "")

\* an answer without a topic is filed under "general"
incorrect_topics_default_general(answers, subject, acc) ==
    LET wrong == SelectSeq(answers,
                           LAMBDA a : ~ _is_correct(Get(a, "correct", Bool(FALSE))))
        topics == [i \in 1..Len(wrong) |-> Get(wrong[i], "topic", "general")]
    IN  acc \o SelectSeq([i \in 1..Len(topics) |->
                            IF \E j \in 1..(i - 1) : topics[j] = topics[i]
                            THEN "" ELSE topics[i]],
                         LAMBDA t : t # "")

RECURSIVE incorrect_topics(_, _, _)
incorrect_topics(answers, subject, acc) ==
    IF answers = <<>> THEN acc
    ELSE LET answer == Head(answers)
             topic == Get(answer, "topic", subject)
         IN  IF ~ _is_correct(Get(answer, "correct", Bool(FALSE)))
                /\ ~ \E i \in 1..Len(acc) : acc[i] = topic
             THEN incorrect_topics(Tail(answers), subject, Append(acc, topic))
             ELSE incorrect_topics(Tail(answers), subject, acc)


\* the empty list handled like a list of wrong answers
evaluate_empty_as_wrong(learner_id, subject, answers) ==
    IF answers = <<>>
    THEN [learner_id |-> learner_id, subject |-> subject, score10 |-> 0,
          areas_to_improve |-> <<FundamentalMsg(subject)>>]
    ELSE LET score == score10(correct_count(answers), Len(answers))
             topics == incorrect_topics(answers, subject, <<>>)
             areas == IF score < 400 THEN Append(topics, FundamentalMsg(subject))
                      ELSE topics
         IN  [learner_id |-> learner_id, subject |-> subject, score10 |-> score,
              areas_to_improve |-> IF areas = <<>> THEN <<ExcellentMsg>> ELSE areas]


\* the message is added for a score of 40 too
evaluate_threshold_inclusive(learner_id, subject, answers) ==
    IF answers = <<>>
    THEN [learner_id |-> learner_id, subject |-> subject, score10 |-> 0,
          areas_to_improve |-> <<NoAnswersMsg>>]
    ELSE LET score == score10(correct_count(answers), Len(answers))
             topics == incorrect_topics(answers, subject, <<>>)
             areas == IF score <= 400 THEN Append(topics, FundamentalMsg(subject))
                      ELSE topics
         IN  [learner_id |-> learner_id, subject |-> subject, score10 |-> score,
              areas_to_improve |-> IF areas = <<>> THEN <<ExcellentMsg>> ELSE areas]

\* the closing message is given for every score of 80 or more
evaluate_excellent_on_high_score(learner_id, subject, answers) ==
    IF answers = <<>>
    THEN [learner_id |-> learner_id, subject |-> subject, score10 |-> 0,
          areas_to_improve |-> <<NoAnswersMsg>>]
    ELSE LET score == score10(correct_count(answers), Len(answers))
             topics == incorrect_topics(answers, subject, <<>>)
             areas == IF score < 400 THEN Append(topics, FundamentalMsg(subject))
                      ELSE topics
         IN  [learner_id |-> learner_id, subject |-> subject, score10 |-> score,
              areas_to_improve |-> IF areas = <<>> \/ score >= 800
                                   THEN <<ExcellentMsg>> ELSE areas]

evaluate(learner_id, subject, answers) ==
    IF answers = <<>>
    THEN [learner_id |-> learner_id, subject |-> subject, score10 |-> 0,
          areas_to_improve |-> <<NoAnswersMsg>>]
    ELSE LET score == score10(correct_count(answers), Len(answers))
             topics == incorrect_topics(answers, subject, <<>>)
             areas == IF score < 400 THEN Append(topics, FundamentalMsg(subject))
                      ELSE topics
         IN  [learner_id |-> learner_id, subject |-> subject, score10 |-> score,
              areas_to_improve |-> IF areas = <<>> THEN <<ExcellentMsg>> ELSE areas]

(* ------------------------------------------------------------------ *)
(* Inputs                                                               *)
(* ------------------------------------------------------------------ *)

\* custom items handed to add(): a grade-12 item, the content_id of a built-in
\* item reused, subjects in other letter case, and a new subject
AddItems == {
    B("math-custom-001", "math", "Calculus", "beginner", "text", <<>>, 12),
    B("math-006", "MATH", "Algebra Revisited", "advanced", "activity", <<>>, 7),
    B("math-custom-002", "Math", "Ratios", "beginner", "activity", <<>>, 7),
    B("art-001", "Art", "Colour Wheel", "beginner", "quiz", <<>>, 11) }

GenerateSubjects == {"math", "HINDI", "art"}

WeaknessLists == {<<>>, <<"science", "Math", "hindi">>}

Learner(grade, style, weaknesses) ==
    [learner_id |-> "L001", name |-> "Asha", age |-> 12, grade |-> grade,
     language |-> "en", strengths |-> <<>>, weaknesses |-> weaknesses,
     learning_style |-> style]

\* the grades at which the styles that share a preferred type with another
\* style are tried
SecondStyleGrades == {7, 12}

\* every grade with one style per preferred content type, the two other styles
\* at two grades, and the learner of the quickstart example
Learners ==
    {Learner(g, st, w) : g \in MinGrade..MaxGrade, st \in {"visual", "auditory"},
                         w \in WeaknessLists}
    \cup {Learner(g, st, w) : g \in SecondStyleGrades, st \in LearningStyles,
                              w \in WeaknessLists}
    \cup {Learner(7, "visual", <<"math">>)}

CorrectValues ==
    {Bool(TRUE), Bool(FALSE), Int_(0), Int_(1),
     Str("true"), Str("1"), Str("yes"), Str("maybe"),
     Str("false"), Str("0"), Str("no"), Str(""),
     Str("False"), Str(" no "), Str(" "), Str(" 0")}

Answers ==
    {[question_id |-> "q1", correct |-> v, topic |-> "algebra"] : v \in CorrectValues}
    \cup {[question_id |-> "q2", correct |-> Bool(FALSE), topic |-> "Algebra"],
          [question_id |-> "q2", correct |-> Bool(TRUE), topic |-> "geometry"],
          [question_id |-> "q3", correct |-> Str("yes")],
          [question_id |-> "q4", correct |-> Bool(FALSE)],
          [question_id |-> "q5", topic |-> "geometry"],
          [question_id |-> "q6"],
          [question_id |-> "q7", correct |-> Bool(FALSE),
           topic |-> "Fundamental concepts in math"],
          [question_id |-> "q8", correct |-> Bool(TRUE),
           topic |-> "Fundamental concepts in math"]}

\* the records of the longer answer lists
CoreAnswers ==
    {[question_id |-> "q1", correct |-> Bool(TRUE), topic |-> "algebra"],
     [question_id |-> "q1", correct |-> Bool(FALSE), topic |-> "algebra"],
     [question_id |-> "q2", correct |-> Str("no"), topic |-> "geometry"],
     [question_id |-> "q3", correct |-> Str("yes"), topic |-> "geometry"]}

RECURSIVE SeqsUpTo(_, _)
SeqsUpTo(S, n) ==
    IF n = 0 THEN {<<>>}
    ELSE LET shorter == SeqsUpTo(S, n - 1)
         IN  shorter \cup {Append(q, x) : q \in shorter, x \in S}

AnswerLists == SeqsUpTo(Answers, MaxAnswers) \cup SeqsUpTo(CoreAnswers, MaxLongAnswers)

AssessSubjects == {"math", "Science"}

LearnerIds == {"L001", "L-2"}

(* ------------------------------------------------------------------ *)
(* State machine                                                        *)
(* contents is ContentLibrary._contents of the one library, which the   *)
(* PathGenerator holds too; added is the sequence of items handed to    *)
(* add() so far; args are the values the caller built before the calls  *)
(* (learner profile, subject and search filters, or the answer list);   *)
(* ret is the last call and what it returned.                           *)
(* ------------------------------------------------------------------ *)

SearchSubjects == {"math", "MATH", "HINDI", "art"}

SearchDifficulties == {None, Some(""), Some("beginner"), Some("advanced"), Some("expert")}

SearchGrades == {None, Some(7), Some(12)}

GenerateArgs ==
    {[learner |-> l, subject |-> s, difficulty |-> None, grade |-> None] :
        l \in {x \in Learners : ValidLearnerProfile(x)}, s \in GenerateSubjects}

SearchArgs ==
    {[learner |-> Learner(DefaultGradeLevel, "visual", <<>>), subject |-> s,
      difficulty |-> d, grade |-> g] :
        s \in SearchSubjects, d \in SearchDifficulties, g \in SearchGrades}

Init ==
    /\ contents = ContentLibraryInit
    /\ added = <<>>
    /\ args \in GenerateArgs \cup SearchArgs
    /\ ret = [op |-> "init"]

Add ==
    /\ Len(added) < MaxAdds
    /\ \E item \in AddItems :
        /\ ValidLearningContent(item)
        /\ contents' = add(contents, item)
        /\ added' = Append(added, item)
        /\ ret' = [op |-> "add", content |-> item]
    /\ UNCHANGED args

Search ==
    /\ ret' = [op |-> "search",
               value |-> search(contents, args.subject, args.difficulty, args.grade)]
    /\ UNCHANGED <<contents, added, args>>

AllSubjects ==
    /\ ret' = [op |-> "all_subjects", value |-> all_subjects(contents)]
    /\ UNCHANGED <<contents, added, args>>

AllContent ==
    /\ ret' = [op |-> "all_content", value |-> all_content(contents)]
    /\ UNCHANGED <<contents, added, args>>

\* grade_filtered.sort() works in place; on the fallback branch grade_filtered
\* is the very list search returned
Generate ==
    /\ LET path == generate(contents, args.learner, args.subject)
       IN  ret' = [op |-> "generate", path |-> path, raised |-> ~ ValidLearningPath(path)]
    /\ contents' = IF /\ returns_internal_list("search")
                      /\ SelectSeq(search(contents, args.subject, None, None),
                                   LAMBDA c : c.grade_level \in grade_range(args.learner.grade))
                           = <<>>
                   THEN sorted_candidates(contents, args.learner, args.subject)
                   ELSE contents
    /\ UNCHANGED <<added, args>>

\* the caller changes a list it got from search or all_content: list.pop()
CallerMutates ==
    /\ ret.op \in {"search", "all_content"}
    /\ ret.value # <<>>
    /\ LET changed == SubSeq(ret.value, 1, Len(ret.value) - 1)
       IN  /\ ret' = [op |-> "mutated", of |-> ret.op, value |-> changed]
           /\ contents' = IF returns_internal_list(ret.op) THEN changed ELSE contents
    /\ UNCHANGED <<added, args>>

Next == Add \/ Search \/ AllSubjects \/ AllContent \/ Generate \/ CallerMutates

Spec == Init /\ [][Next]_vars

\* the assessment engine is stateless and independent of the library
InitAssess ==
    /\ contents = ContentLibraryInit
    /\ added = <<>>
    /\ args \in {[learner_id |-> l, subject |-> s, answers |-> a] :
                    l \in LearnerIds, s \in AssessSubjects, a \in AnswerLists}
    /\ ret = [op |-> "init"]

Evaluate ==
    /\ LET result == evaluate(args.learner_id, args.subject, args.answers)
       IN  ret' = [op |-> "evaluate", result |-> result,
                   raised |-> ~ ValidAssessmentResult(result)]
    /\ UNCHANGED <<contents, added, args>>

NextAssess == Evaluate

SpecAssess == InitAssess /\ [][NextAssess]_vars

(* ------------------------------------------------------------------ *)
(* Construction of the pydantic models: the caller hands keyword         *)
(* arguments to LearnerProfile(...) or LearningContent(...) and gets an  *)
(* object or a ValidationError; only an object can be passed on to add   *)
(* or generate.                                                          *)
(* ------------------------------------------------------------------ *)

KwAges == {3, 4, 25, 26}

KwGrades == {0, 1, 12, 13}

KwLearningStyles == LearningStyles \cup {"tactile", "Visual"}

KwDifficulties == Difficulties \cup {"expert", ""}

KwContentTypes == ContentTypes \cup {"video"}

\* grade_level left out, or given
KwGradeLevels == {None} \cup {Some(g) : g \in KwGrades}

LearnerProfileKwargs ==
    {[learner_id |-> "L001", name |-> "Asha", age |-> a, grade |-> g, learning_style |-> st] :
        a \in KwAges, g \in KwGrades, st \in KwLearningStyles}

LearningContentKwargs ==
    {[content_id |-> "math-custom-001", subject |-> "math", topic |-> "Calculus",
      difficulty |-> d, content_type |-> t, grade_level |-> g] :
        d \in KwDifficulties, t \in KwContentTypes, g \in KwGradeLevels}

\* LearnerProfile(**kw): language, strengths and weaknesses take their defaults
LearnerProfile(kw) ==
    LET obj == [learner_id |-> kw.learner_id, name |-> kw.name, age |-> kw.age,
                grade |-> kw.grade, language |-> "en", strengths |-> <<>>,
                weaknesses |-> <<>>, learning_style |-> kw.learning_style]
    IN  IF ValidLearnerProfile(obj) THEN [ok |-> TRUE, value |-> Some(obj)]
        ELSE [ok |-> FALSE, value |-> None]

\* LearningContent(**kw): grade_level defaults to 5, ncf_alignment to []
LearningContent(kw) ==
    LET grade == IF kw.grade_level = None THEN DefaultGradeLevel ELSE kw.grade_level[1]
        obj == B(kw.content_id, kw.subject, kw.topic, kw.difficulty, kw.content_type,
                 <<>>, grade)
    IN  IF ValidLearningContent(obj) THEN [ok |-> TRUE, value |-> Some(obj)]
        ELSE [ok |-> FALSE, value |-> None]

InitModels ==
    /\ contents = ContentLibraryInit
    /\ added = <<>>
    /\ args \in {[kind |-> "LearnerProfile", kwargs |-> kw] : kw \in LearnerProfileKwargs}
           \cup {[kind |-> "LearningContent", kwargs |-> kw] : kw \in LearningContentKwargs}
    /\ ret = [op |-> "init"]

Construct ==
    /\ LET made == IF args.kind = "LearnerProfile" THEN LearnerProfile(args.kwargs)
                   ELSE LearningContent(args.kwargs)
       IN  ret' = [op |-> "construct", ok |-> made.ok, value |-> made.value]
    /\ UNCHANGED <<contents, added, args>>

\* library.add(content) with the object just built
AddConstructed ==
    /\ ret.op = "construct"
    /\ ret.ok
    /\ args.kind = "LearningContent"
    /\ Len(added) < MaxAdds
    /\ contents' = add(contents, ret.value[1])
    /\ added' = Append(added, ret.value[1])
    /\ ret' = [op |-> "add", content |-> ret.value[1]]
    /\ UNCHANGED args

\* generator.generate(learner, "math") with the object just built
GenerateConstructed ==
    /\ ret.op = "construct"
    /\ ret.ok
    /\ args.kind = "LearnerProfile"
    /\ LET path == generate(contents, ret.value[1], "math")
       IN  ret' = [op |-> "generate", path |-> path, raised |-> ~ ValidLearningPath(path)]
    /\ UNCHANGED <<contents, added, args>>

NextModels == Construct \/ AddConstructed \/ GenerateConstructed

SpecModels == InitModels /\ [][NextModels]_vars

(* ------------------------------------------------------------------ *)
(* Properties of generate                                               *)
(* ------------------------------------------------------------------ *)

Generated == ret.op = "generate"

Path == ret.path.content_sequence

\* the library's items of the requested subject
SubjectItems ==
    {contents[k] : k \in {n \in 1..Len(contents) :
                            Lower(contents[n].subject) = Lower(args.subject)}}

\* the inclusive window [max(1, g-1), min(12, g+1)] of the learner's grade
InclusiveWindow ==
    {g \in 1..12 : g >= args.learner.grade - 1 /\ g <= args.learner.grade + 1}

WindowItems == {c \in SubjectItems : c.grade_level \in InclusiveWindow}

\* the items that pass the grade filter generate applies
FilterSurvivors == {c \in SubjectItems : c.grade_level \in grade_range(args.learner.grade)}

Ids(S) == {c.content_id : c \in S}

PathItems == {Path[i] : i \in 1..Len(Path)}

WeakLearner ==
    \E i \in 1..Len(args.learner.weaknesses) :
        Lower(args.learner.weaknesses[i]) = Lower(args.subject)

\* activity for visual and kinesthetic, text for auditory and read-write
PreferredOf(style) == IF style \in {"visual", "kinesthetic"} THEN "activity" ELSE "text"

Preferred == PreferredOf(args.learner.learning_style)

\* C1: a generated path holds no two items with the same content_id, whatever
\* the add calls put into the library (reused content_ids included)
C1_NoDuplicateIds ==
    Generated =>
        \A i, j \in 1..Len(Path) : i # j => Path[i].content_id # Path[j].content_id

\* two library items of one content_id both pass the subject and grade filter
C1_Witness ==
    /\ Generated
    /\ \E a, b \in 1..Len(contents) :
          /\ a < b
          /\ contents[a].content_id = contents[b].content_id
          /\ {contents[a], contents[b]} \subseteq FilterSurvivors
    /\ Len(Path) >= 2

\* C2: every item of a generated path is held by the library and is of the
\* requested subject, compared case-insensitively
C2_FromLibraryAndSubject ==
    Generated =>
        \A i \in 1..Len(Path) :
            /\ \E k \in 1..Len(contents) : contents[k] = Path[i]
            /\ Path[i].content_id \in {all_content(contents)[k].content_id :
                                          k \in 1..Len(contents)}
            /\ Lower(Path[i].subject) = Lower(args.subject)

\* a path over a library with added items that holds an item whose subject is
\* written in another letter case than the request
C2_Witness ==
    /\ Generated
    /\ Len(contents) > Len(_BUILTIN_CONTENT)
    /\ \E i \in 1..Len(Path) : Path[i].subject # args.subject
    /\ \E i \in 1..Len(Path) : Path[i].subject = args.subject

\* C3: every item of the path has a grade level in the inclusive window, unless
\* no item of the subject has a grade level in the inclusive window
C3_GradeWindow ==
    (Generated /\ WindowItems # {}) =>
        \A i \in 1..Len(Path) : Path[i].grade_level \in InclusiveWindow

\* C4: when an item of the subject lies in the inclusive window, the path's
\* content_ids are exactly those of the subject's items in the inclusive window
C4_ExactlyWindow ==
    (Generated /\ WindowItems # {}) => Ids(PathItems) = Ids(WindowItems)

\* C5: a subject the library knows never gives an empty path; when nothing
\* survives the grade filter the path holds every item of the subject, one per
\* content_id
C5_Fallback ==
    (Generated /\ SubjectItems # {}) =>
        /\ Path # <<>>
        /\ FilterSurvivors = {} =>
              /\ Ids(PathItems) = Ids(SubjectItems)
              /\ Len(Path) = Cardinality(Ids(SubjectItems))

\* the fallback over a subject that holds a content_id twice, at grade levels
\* away from the learner's
C5_Witness ==
    /\ Generated
    /\ SubjectItems # {}
    /\ FilterSurvivors = {}
    /\ Cardinality(SubjectItems) > Cardinality(Ids(SubjectItems))
    /\ \E i \in 1..Len(Path) : Path[i].grade_level \notin InclusiveWindow

\* C6: a subject that matches no item gives an empty search result and a path
\* with an empty sequence, the learner embedded and progress 0.0, and no error
C6_UnknownSubject ==
    (Generated /\ SubjectItems = {}) =>
        /\ search(contents, args.subject, None, None) = <<>>
        /\ ret.path.content_sequence = <<>>
        /\ ret.path.learner = args.learner
        /\ ret.path.progress_pct = 0
        /\ ~ ret.raised

\* an unknown subject requested from a library that has had items added
C6_Witness ==
    /\ Generated
    /\ SubjectItems = {}
    /\ Len(contents) > Len(_BUILTIN_CONTENT)

C9_PreferredFirst ==
    Generated =>
        /\ Preferred # "quiz"
        /\ \A i, j \in 1..Len(Path) :
              (Path[i].content_type = Preferred /\ Path[j].content_type # Preferred)
              => i < j
        /\ (\E i \in 1..Len(Path) : Path[i].content_type = Preferred)
              => Path[1].content_type = Preferred

\* a path with preferred items, a quiz and another item, where an item outside
\* the preferred block has a smaller difficulty distance than one inside
C9_Witness ==
    /\ Generated
    /\ \E i, j, k \in 1..Len(Path) :
          /\ Path[i].content_type = Preferred
          /\ Path[j].content_type = "quiz"
          /\ Path[k].content_type \notin {Preferred, "quiz"}
          /\ sort_key(Path[k], starting_difficulty(args.learner, args.subject))[1]
               < sort_key(Path[i], starting_difficulty(args.learner, args.subject))[1]

(* ------------------------------------------------------------------ *)
(* Properties of evaluate                                               *)
(* ------------------------------------------------------------------ *)

Evaluated == ret.op = "evaluate"

\* C10: an empty answer list gives score 0.0 and the one message "No answers
\* provided", with learner_id and subject copied and no error
C10_EmptyAnswers ==
    (Evaluated /\ args.answers = <<>>) =>
        /\ ret.result.score10 = 0
        /\ ret.result.areas_to_improve
             = <<"No answers provided -- please attempt the assessment.">>
        /\ ret.result.learner_id = args.learner_id
        /\ ret.result.subject = args.subject
        /\ ~ ret.raised

\* evaluate has returned for an empty answer list
C10_Witness ==
    /\ Evaluated
    /\ args.answers = <<>>
    /\ Len(ret.result.areas_to_improve) = 1

EvalAnswers == args.answers

Areas == ret.result.areas_to_improve

\* the judgement evaluate applies to an answer record
JudgedCorrect(a) == _is_correct(Get(a, "correct", Bool(FALSE)))

CorrectTotal == Cardinality({i \in 1..Len(EvalAnswers) : JudgedCorrect(EvalAnswers[i])})

TopicOf(a) == IF "topic" \in DOMAIN a THEN a.topic ELSE args.subject

\* the messages evaluate makes up itself for the assessed subject
SynthesizedMessages ==
    {"No answers provided -- please attempt the assessment.",
     "Continue to advanced topics -- excellent performance!",
     FundamentalMsg(args.subject)}

\* the elements of a sequence without repetitions, in order of first occurrence
FirstOccurrences(T) ==
    LET idx == {i \in 1..Len(T) : \A j \in 1..(i - 1) : T[j] # T[i]}
    IN  [p \in 1..Cardinality(idx) |->
            T[CHOOSE i \in idx : Cardinality({j \in idx : j < i}) = p - 1]]

\* C11: a non-empty answer list whose answers are all judged correct gives
\* score 100.0 and the one message "Continue to advanced topics", whatever the topics
C11_AllCorrect ==
    (/\ Evaluated
     /\ EvalAnswers # <<>>
     /\ \A i \in 1..Len(EvalAnswers) : JudgedCorrect(EvalAnswers[i]))
    => /\ ret.result.score10 = 1000
       /\ Areas = <<"Continue to advanced topics -- excellent performance!">>

\* all answers correct, with two different topics, one of them absent
C11_Witness ==
    /\ Evaluated
    /\ Len(EvalAnswers) >= 2
    /\ \A i \in 1..Len(EvalAnswers) : JudgedCorrect(EvalAnswers[i])
    /\ \E i, j \in 1..Len(EvalAnswers) : TopicOf(EvalAnswers[i]) # TopicOf(EvalAnswers[j])
    /\ ret.result.score10 = 1000

\* the judgement as C12 words it: a string is incorrect exactly when trimmed
\* and lower-cased it is "false", "0", "no" or empty; another value is correct
\* exactly when it is truthy
C12_Correct(v) ==
    IF v.type = "str"
    THEN v.val \notin {"false", "False", "0", " 0", "no", " no ", "NO", "", " "}
    ELSE IF v.type = "bool" THEN v.val = TRUE
    ELSE v.val # 0

C12_CorrectIdx == {i \in 1..Len(EvalAnswers) : C12_Correct(EvalAnswers[i].correct)}

\* C12: on answers that carry a correct value, the score counts exactly the
\* answers correct under that judgement and the weak topics are exactly the
\* topics of the others
C12_Judgement ==
    (/\ Evaluated
     /\ EvalAnswers # <<>>
     /\ \A i \in 1..Len(EvalAnswers) : "correct" \in DOMAIN EvalAnswers[i])
    => LET n == Len(EvalAnswers)
           c == Cardinality(C12_CorrectIdx)
           wrong == {TopicOf(EvalAnswers[i]) : i \in (1..n) \ C12_CorrectIdx}
       IN  /\ 2 * Abs(ret.result.score10 * n - 1000 * c) <= n
           /\ (ret.result.score10 = 1000) = (c = n)
           /\ (ret.result.score10 = 0) = (c = 0)
           /\ \A t \in wrong : \E k \in 1..Len(Areas) : Areas[k] = t
           /\ \A k \in 1..Len(Areas) : Areas[k] \in wrong \cup SynthesizedMessages

\* a string that reads as false and a string that reads as true in one list
C12_Witness ==
    /\ Evaluated
    /\ Len(EvalAnswers) = 2
    /\ \A i \in 1..2 : "correct" \in DOMAIN EvalAnswers[i]
    /\ EvalAnswers[1].correct.type = "str"
    /\ EvalAnswers[1].correct.val \in {" no ", "False", "0", ""}
    /\ EvalAnswers[2].correct.type = "str"
    /\ EvalAnswers[2].correct.val \in {"maybe", "1", "yes"}
    /\ ret.result.score10 = 500

\* C13: the score is 100 * c / t rounded to one decimal: within 0.05 of the
\* percentage and inside [0.0, 100.0]
C13_Score ==
    (Evaluated /\ EvalAnswers # <<>>) =>
        LET t == Len(EvalAnswers)
            c == CorrectTotal
            sc == ret.result.score10
        IN  /\ sc \in 0..1000
            /\ 2 * Abs(sc * t - 1000 * c) <= t
            /\ c = 0 => sc = 0
            /\ (c = 1 /\ t = 2) => sc = 500
            /\ (c = 1 /\ t = 3) => sc = 333
            /\ (c = 2 /\ t = 3) => sc = 667
            /\ c = t => sc = 1000

\* two answers of three are correct
C13_Witness ==
    /\ Evaluated
    /\ Len(EvalAnswers) = 3
    /\ CorrectTotal = 2
    /\ ret.result.score10 = 667

\* the topics of the answers judged incorrect, in the order of the answers
IncorrectTopicSeq ==
    LET wrong == SelectSeq(EvalAnswers, LAMBDA a : ~ JudgedCorrect(a))
    IN  [i \in 1..Len(wrong) |-> TopicOf(wrong[i])]

C15_NoDuplicateAreas ==
    Evaluated => \A i, j \in 1..Len(Areas) : i # j => Areas[i] # Areas[j]

(* ------------------------------------------------------------------ *)
(* Properties of the library                                            *)
(* ------------------------------------------------------------------ *)

Searched == ret.op = "search"

Found == ret.value

\* the item passes the subject test and the filters that were supplied
Matches(c) ==
    /\ Lower(c.subject) = Lower(args.subject)
    /\ (args.grade = None \/ c.grade_level = args.grade[1])
    /\ (args.difficulty = None \/ c.difficulty = args.difficulty[1])

\* C16: search returns exactly the items of the subject (compared
\* case-insensitively) that have the grade and the difficulty label given, no
\* more and no fewer
C16_SearchExact ==
    (Searched /\ args.difficulty # Some("")) =>
        /\ \A i \in 1..Len(Found) : Matches(Found[i])
        /\ \A k \in 1..Len(contents) :
              Matches(contents[k]) =>
                  Cardinality({i \in 1..Len(Found) : Found[i] = contents[k]})
                    = Cardinality({n \in 1..Len(contents) : contents[n] = contents[k]})
        /\ Len(Found) = Cardinality({k \in 1..Len(contents) : Matches(contents[k])})
        /\ args.subject = "MATH" =>
              Found = search(contents, "math", args.difficulty, args.grade)

\* a search by grade that returns items whose subjects are written in
\* different letter case, and leaves out an item of the subject of another grade
C16_Witness ==
    /\ Searched
    /\ args.grade # None
    /\ \E i, j \in 1..Len(Found) : Found[i].subject # Found[j].subject
    /\ \E k \in 1..Len(contents) :
          /\ Lower(contents[k].subject) = Lower(args.subject)
          /\ ~ Matches(contents[k])

\* the difficulty labels as plain strings compare
LexicalDifficulties == <<"advanced", "beginner", "intermediate">>

LexicalPosition(d) == CHOOSE p \in 1..3 : LexicalDifficulties[p] = d

\* C17: the search result is ordered by grade_level, then by the difficulty
\* label as a string; items equal in both keep the library's insertion order
C17_SearchOrder ==
    Searched =>
        /\ \A i, j \in 1..Len(Found) :
              i < j =>
                  \/ Found[i].grade_level < Found[j].grade_level
                  \/ /\ Found[i].grade_level = Found[j].grade_level
                     /\ LexicalPosition(Found[i].difficulty)
                          <= LexicalPosition(Found[j].difficulty)
        /\ \A g \in MinGrade..MaxGrade, d \in Difficulties :
              SelectSeq(Found, LAMBDA c : c.grade_level = g /\ c.difficulty = d)
                = SelectSeq(contents, LAMBDA c :
                      /\ c.grade_level = g
                      /\ c.difficulty = d
                      /\ \E i \in 1..Len(Found) : Found[i] = c)

\* one grade with an advanced item ahead of two different intermediate items
C17_Witness ==
    /\ Searched
    /\ \E i, j, k \in 1..Len(Found) :
          /\ i < j /\ j < k
          /\ Found[i].grade_level = Found[k].grade_level
          /\ Found[j].grade_level = Found[k].grade_level
          /\ Found[i].difficulty = "advanced"
          /\ Found[j].difficulty = "intermediate"
          /\ Found[k].difficulty = "intermediate"
          /\ Found[j] # Found[k]

\* C18: the library is the built-in items followed by the added items in the
\* order of the add calls, one more item per add, reused content_ids included,
\* and all_content() returns just that
C18_AllContent ==
    /\ contents = _BUILTIN_CONTENT \o added
    /\ Len(contents) = Len(_BUILTIN_CONTENT) + Len(added)
    /\ ret.op = "all_content" => ret.value = _BUILTIN_CONTENT \o added

\* all_content() after two different adds, one of them reusing a content_id
C18_Witness ==
    /\ ret.op = "all_content"
    /\ Len(added) = 2
    /\ added[1] # added[2]
    /\ \E k \in 1..Len(_BUILTIN_CONTENT) :
          _BUILTIN_CONTENT[k].content_id = added[2].content_id
    /\ Len(ret.value) = 27

\* C19: an item handed to add is in every later search for its subject and
\* grade, and a path generated for its subject and a grade next to its own
\* holds its content_id
C19_AddedIsFound ==
    /\ (Searched /\ args.difficulty = None /\ args.grade # None) =>
          \A n \in 1..Len(added) :
              (/\ Lower(added[n].subject) = Lower(args.subject)
               /\ added[n].grade_level = args.grade[1])
              => \E i \in 1..Len(Found) : Found[i] = added[n]
    /\ Generated =>
          \A n \in 1..Len(added) :
              (/\ Lower(added[n].subject) = Lower(args.subject)
               /\ added[n].grade_level \in grade_range(args.learner.grade))
              => \E i \in 1..Len(Path) : Path[i].content_id = added[n].content_id

\* a search that finds an item added before another add, whose content_id a
\* built-in item has too
C19_Witness ==
    /\ Searched
    /\ args.difficulty = None
    /\ args.grade # None
    /\ Len(added) = 2
    /\ added[1] # added[2]
    /\ args.subject = added[1].subject
    /\ args.grade[1] = added[1].grade_level
    /\ \E k \in 1..Len(_BUILTIN_CONTENT) :
          _BUILTIN_CONTENT[k].content_id = added[1].content_id
    /\ \E i \in 1..Len(Found) : Found[i] = added[1]

\* subject strings in ascending order of Python's string comparison
LexicalSubjects ==
    <<"Art", "HINDI", "MATH", "Math", "art", "english", "hindi", "math", "science",
      "social_studies">>

LexicalSubjectPosition(x) ==
    CHOOSE p \in 1..Len(LexicalSubjects) : LexicalSubjects[p] = x

\* C20: all_subjects() lists every subject value of the library once, in
\* ascending order, values that differ in letter case apart
C20_AllSubjects ==
    ret.op = "all_subjects" =>
        /\ {ret.value[i] : i \in 1..Len(ret.value)}
             = {contents[k].subject : k \in 1..Len(contents)}
        /\ \A i, j \in 1..Len(ret.value) :
              i < j => LexicalSubjectPosition(ret.value[i])
                         < LexicalSubjectPosition(ret.value[j])

\* the list holds math next to a spelling of it in another letter case
C20_Witness ==
    /\ ret.op = "all_subjects"
    /\ Len(ret.value) = 7
    /\ \E i, j \in 1..Len(ret.value) :
          /\ ret.value[i] = "math"
          /\ ret.value[j] \in {"MATH", "Math"}
          /\ j < i

(* ------------------------------------------------------------------ *)
(* C21: the seed table                                                  *)
(* ------------------------------------------------------------------ *)

Fresh == added = <<>>

SeedIds ==
    {"math-001", "math-002", "math-003", "math-004", "math-005", "math-006",
     "math-007", "math-008", "math-009", "math-010",
     "sci-001", "sci-002", "sci-003", "sci-004", "sci-005", "sci-006",
     "hindi-001", "hindi-002", "hindi-003",
     "evs-001", "evs-002", "evs-003",
     "eng-001", "eng-002", "eng-003"}

\* C21: a library nothing was added to holds exactly the 25 built-in items:
\* distinct content_ids, the five subjects, grades within 1..10, every content
\* type and every difficulty present, and an alignment code on every item
C21_SeedTable ==
    Fresh =>
        /\ Len(contents) = 25
        /\ {contents[k].content_id : k \in 1..Len(contents)} = SeedIds
        /\ \A j, k \in 1..Len(contents) :
              j # k => contents[j].content_id # contents[k].content_id
        /\ {contents[k].subject : k \in 1..Len(contents)}
             = {"math", "science", "hindi", "social_studies", "english"}
        /\ \A k \in 1..Len(contents) : contents[k].grade_level \in 1..10
        /\ {contents[k].content_type : k \in 1..Len(contents)} = {"text", "quiz", "activity"}
        /\ {contents[k].difficulty : k \in 1..Len(contents)}
             = {"beginner", "intermediate", "advanced"}
        /\ \A k \in 1..Len(contents) : Len(contents[k].ncf_alignment) >= 1
        /\ ret.op = "all_content" => ret.value = contents

\* all_content called on a library nothing was added to
C21_Witness ==
    /\ Fresh
    /\ ret.op = "all_content"
    /\ Len(ret.value) = 25
    /\ ret.value[25].content_id = "eng-003"

(* ------------------------------------------------------------------ *)
(* C23, C29, C30: defaults and bounds of evaluate                       *)
(* ------------------------------------------------------------------ *)

\* the answer record is incorrect: it has no correct value, or one that is
\* false, zero or one of the four negative strings
Incorrect(a) == "correct" \notin DOMAIN a \/ ~ C12_Correct(a.correct)

IncorrectIdx == {i \in 1..Len(EvalAnswers) : Incorrect(EvalAnswers[i])}

Untopiced(a) == "topic" \notin DOMAIN a

Occurrences(T, x) == Cardinality({k \in 1..Len(T) : T[k] = x})

\* C23: with an incorrect answer that has no topic, the subject string is in
\* areas_to_improve exactly once, at the place of the first such answer among
\* the distinct topics of the incorrect answers
C23_TopicDefaultsToSubject ==
    (/\ Evaluated
     /\ \E i \in IncorrectIdx : Untopiced(EvalAnswers[i])) =>
        /\ Occurrences(Areas, args.subject) = 1
        /\ LET first == CHOOSE i \in IncorrectIdx :
                            /\ Untopiced(EvalAnswers[i])
                            /\ \A j \in IncorrectIdx : Untopiced(EvalAnswers[j]) => i <= j
               earlier == {EvalAnswers[j].topic : j \in {n \in IncorrectIdx : n < first}}
           IN  Areas[Cardinality(earlier) + 1] = args.subject

\* two incorrect answers without a topic: the subject is entered once
C23_Witness ==
    /\ Evaluated
    /\ Cardinality({i \in IncorrectIdx : Untopiced(EvalAnswers[i])}) = 2
    /\ Areas[1] = args.subject

Keyless(a) == "correct" \notin DOMAIN a

KeyedCorrectTotal ==
    Cardinality({i \in 1..Len(EvalAnswers) :
                    ~ Keyless(EvalAnswers[i]) /\ C12_Correct(EvalAnswers[i].correct)})

\* C29: an answer without a correct key adds nothing to the correct count,
\* counts in the total the score is taken over, and has its topic (the subject
\* when it has none) in areas_to_improve
C29_MissingCorrectKey ==
    (/\ Evaluated
     /\ \E i \in 1..Len(EvalAnswers) : Keyless(EvalAnswers[i])) =>
        /\ 2 * Abs(ret.result.score10 * Len(EvalAnswers) - 1000 * KeyedCorrectTotal)
             <= Len(EvalAnswers)
        /\ ret.result.score10 < 1000
        /\ \A i \in 1..Len(EvalAnswers) :
              Keyless(EvalAnswers[i]) =>
                  \E k \in 1..Len(Areas) :
                      Areas[k] = (IF Untopiced(EvalAnswers[i]) THEN args.subject
                                  ELSE EvalAnswers[i].topic)

\* a correct answer next to one without a correct key: half the marks
C29_Witness ==
    /\ Evaluated
    /\ Len(EvalAnswers) = 2
    /\ Keyless(EvalAnswers[2])
    /\ ~ Keyless(EvalAnswers[1])
    /\ ret.result.score10 = 500

FundamentalText ==
    IF args.subject = "math" THEN "Fundamental concepts in math"
    ELSE "Fundamental concepts in Science"

ExcellentText == "Continue to advanced topics -- excellent performance!"

\* C30: every result has a non-empty areas_to_improve and a score within
\* 0.0..100.0, and is accepted by AssessmentResult; the "excellent
\* performance" message is there only for a non-empty list without an
\* incorrect answer, and never next to "Fundamental concepts in {subject}"
C30_ResultBounds ==
    Evaluated =>
        /\ Areas # <<>>
        /\ ret.result.score10 \in 0..1000
        /\ ~ ret.raised
        /\ Occurrences(Areas, ExcellentText) > 0 =>
              /\ EvalAnswers # <<>>
              /\ IncorrectIdx = {}
              /\ Areas = <<ExcellentText>>
        /\ ~ (Occurrences(Areas, ExcellentText) > 0 /\ Occurrences(Areas, FundamentalText) > 0)

\* four answers of five correct: a high score without the closing message
C30_Witness ==
    /\ Evaluated
    /\ Len(EvalAnswers) = 5
    /\ Cardinality(IncorrectIdx) = 1
    /\ ret.result.score10 = 800
    /\ Occurrences(Areas, ExcellentText) = 0
    /\ Occurrences(Areas, FundamentalText) = 0

(* ------------------------------------------------------------------ *)
(* C24 - C26: order and deduplication of a generated path               *)
(* ------------------------------------------------------------------ *)

Rank(d) == IF d = "beginner" THEN 0 ELSE IF d = "intermediate" THEN 1 ELSE 2

TargetRank == IF WeakLearner THEN 0 ELSE 1

Distance(c) ==
    IF Rank(c.difficulty) >= TargetRank THEN Rank(c.difficulty) - TargetRank
    ELSE TargetRank - Rank(c.difficulty)

SameBlock(c, d) == (c.content_type = Preferred) <=> (d.content_type = Preferred)

\* the place of the first record equal to c in the library
LibraryPosition(c) ==
    CHOOSE k \in 1..Len(contents) :
        contents[k] = c /\ \A n \in 1..(k - 1) : contents[n] # c

\* C24: within the preferred-type block and within the remaining block the
\* path is in non-decreasing order of (difficulty distance to the target,
\* grade_level); items equal on both are in the order search gives (difficulty
\* label as a string, then insertion order), so for a learner not weak in the
\* subject an advanced item comes before a beginner item of its grade and type
C24_OrderWithinBlocks ==
    Generated =>
        \A i, j \in 1..Len(Path) :
            (i < j /\ SameBlock(Path[i], Path[j])) =>
                /\ Distance(Path[i]) <= Distance(Path[j])
                /\ Distance(Path[i]) = Distance(Path[j]) =>
                      Path[i].grade_level <= Path[j].grade_level
                /\ (/\ Distance(Path[i]) = Distance(Path[j])
                    /\ Path[i].grade_level = Path[j].grade_level) =>
                      /\ LexicalPosition(Path[i].difficulty)
                           <= LexicalPosition(Path[j].difficulty)
                      /\ Path[i].difficulty = Path[j].difficulty =>
                            LibraryPosition(Path[i]) < LibraryPosition(Path[j])
                /\ (/\ ~ WeakLearner
                    /\ Path[i].grade_level = Path[j].grade_level
                    /\ Path[i].content_type = Path[j].content_type) =>
                      ~ (Path[i].difficulty = "beginner" /\ Path[j].difficulty = "advanced")

\* a learner not weak in the subject whose path has an advanced item before a
\* beginner item of the same grade and content type
C24_Witness ==
    /\ Generated
    /\ ~ WeakLearner
    /\ \E i, j \in 1..Len(Path) :
          /\ i < j
          /\ Path[i].difficulty = "advanced"
          /\ Path[j].difficulty = "beginner"
          /\ Path[i].grade_level = Path[j].grade_level
          /\ Path[i].content_type = Path[j].content_type

\* the candidates in partitioned order, before the seen_ids loop
Mixed ==
    partitioned(sorted_candidates(contents, args.learner, args.subject),
                preferred_type(args.learner.learning_style))

\* the places of a sequence that hold the first item of their content_id
FirstOfId(m) == {i \in 1..Len(m) : \A j \in 1..(i - 1) : m[j].content_id # m[i].content_id}

\* C25: of the candidates that share a content_id the path holds exactly the
\* one that is first in the partitioned order, and the kept items are in the
\* order they have there
C25_FirstOfEachId ==
    Generated =>
        LET m == Mixed
            first == FirstOfId(m)
        IN  /\ Len(Path) = Cardinality(first)
            /\ \A p \in 1..Len(Path) :
                  Path[p] = m[CHOOSE i \in first : Cardinality({j \in first : j < i}) = p - 1]
            /\ \A i \in 1..Len(m) :
                  Cardinality({p \in 1..Len(Path) : Path[p].content_id = m[i].content_id}) = 1

\* two different candidates share a content_id; the one of the preferred type
\* is kept although the other one is nearer to the target difficulty
C25_Witness ==
    /\ Generated
    /\ Len(added) > 0
    /\ LET m == Mixed
       IN  \E i, j \in 1..Len(m) :
              /\ i < j
              /\ m[i].content_id = m[j].content_id
              /\ m[i] # m[j]
              /\ m[i].content_type = Preferred
              /\ m[j].content_type # Preferred
              /\ Distance(m[j]) < Distance(m[i])
              /\ \E p \in 1..Len(Path) : Path[p] = m[i]
              /\ \A p \in 1..Len(Path) : Path[p] # m[j]

SeedLearner ==
    /\ args.learner.grade = 7
    /\ args.learner.weaknesses = <<"math">>
    /\ args.learner.learning_style = "visual"
    /\ args.subject = "math"

C27_SuppliedDifficulty ==
    (Searched /\ args.difficulty # None) =>
        \A i \in 1..Len(Found) : Found[i].difficulty = args.difficulty[1]

Constructed == ret.op = "construct"

AcceptableLearner(l) ==
    /\ l.age \in 4..25
    /\ l.grade \in 1..12
    /\ l.learning_style \in {"visual", "auditory", "kinesthetic", "read-write"}

AcceptableContent(c) ==
    /\ c.difficulty \in {"beginner", "intermediate", "advanced"}
    /\ c.content_type \in {"text", "quiz", "activity"}
    /\ c.grade_level \in 1..12

\* C22: LearnerProfile(...) succeeds exactly for age 4..25, grade 1..12 and one
\* of the four learning styles, LearningContent(...) exactly for one of the
\* three difficulties, one of the three content types and grade_level 1..12 or
\* left out (then 5); a failed construction gives no object, and every item
\* in the library and every learner handed to generate satisfies the constraints
C22_ValidationAtConstruction ==
    /\ (Constructed /\ args.kind = "LearnerProfile") =>
          /\ ret.ok <=> AcceptableLearner(args.kwargs)
          /\ ret.ok =>
                /\ ret.value[1].age = args.kwargs.age
                /\ ret.value[1].grade = args.kwargs.grade
                /\ ret.value[1].learning_style = args.kwargs.learning_style
    /\ (Constructed /\ args.kind = "LearningContent") =>
          /\ ret.ok <=>
                /\ args.kwargs.difficulty \in {"beginner", "intermediate", "advanced"}
                /\ args.kwargs.content_type \in {"text", "quiz", "activity"}
                /\ args.kwargs.grade_level \in {<<>>} \cup {<<g>> : g \in 1..12}
          /\ ret.ok =>
                /\ ret.value[1].difficulty = args.kwargs.difficulty
                /\ ret.value[1].content_type = args.kwargs.content_type
                /\ ret.value[1].grade_level
                     = (IF args.kwargs.grade_level = <<>> THEN 5 ELSE args.kwargs.grade_level[1])
    /\ Constructed => (ret.ok <=> ret.value # <<>>)
    /\ \A k \in 1..Len(contents) : AcceptableContent(contents[k])
    /\ ret.op = "add" => AcceptableContent(ret.content)
    /\ ret.op = "generate" => AcceptableLearner(ret.path.learner)

\* a LearningContent whose only fault is grade_level 13 is refused
C22_Witness ==
    /\ Constructed
    /\ args.kind = "LearningContent"
    /\ args.kwargs.difficulty = "beginner"
    /\ args.kwargs.content_type = "text"
    /\ args.kwargs.grade_level = <<13>>
    /\ ~ ret.ok
    /\ ret.value = <<>>

====
